---- MODULE Spec2Model ----
(***************************************************************************)
(* A model of pygritbx's Gear: the equilibrium solver (Gear.solve and the  *)
(* Component dedup-append updates) and the two AGMA analysis pipelines.    *)
(*                                                                         *)
(* Units of the solver part.  Forces are integer vectors in [N] and        *)
(* locations integer vectors in [mm].  Torques are kept in [N mm], i.e.    *)
(* 1e3 times the code's [N m]: the 1e-3 of Force.moment and the 1e3 of     *)
(* calculateForces are this change of unit, and the 1e-3 [N m] tolerance   *)
(* of checkTorqueEquilibrium is 1 [N mm].                                  *)
(***************************************************************************)
EXTENDS Integers, Sequences, FiniteSets, TLC

VARIABLES EFs, ETs, tq, mesh, cfg, last,
          val, src, assigned, res, ncalls,
          mk, ires

solverVars == <<EFs, ETs, tq, mesh, cfg, last>>
analysisVars == <<val, src, assigned, res, ncalls>>
interpVars == <<mk, ires>>
vars == <<EFs, ETs, tq, mesh, cfg, last, val, src, assigned, res, ncalls, mk, ires>>

(***************************************************************************)
(* Bounds of the model.                                                    *)
(***************************************************************************)
\* solve(g) is explored while the gear's EFs holds fewer than MaxEFs forces
MaxEFs == 3

\* the analysis pipelines are explored for MaxCalls calls on the gear
MaxCalls == 3

(***************************************************************************)
(* 3-vectors (numpy arrays of three numbers).                              *)
(***************************************************************************)
Zero3 == <<0, 0, 0>>

VAdd(a, b) == <<a[1] + b[1], a[2] + b[2], a[3] + b[3]>>

VSub(a, b) == <<a[1] - b[1], a[2] - b[2], a[3] - b[3]>>

VScale(k, a) == <<k * a[1], k * a[2], k * a[3]>>

VMul(a, b) == <<a[1] * b[1], a[2] * b[2], a[3] * b[3]>>

Abs(x) == IF x < 0 THEN -x ELSE x

Sgn(x) == IF x < 0 THEN -1 ELSE IF x > 0 THEN 1 ELSE 0

VAbs(a) == <<Abs(a[1]), Abs(a[2]), Abs(a[3])>>

VSum(a) == a[1] + a[2] + a[3]

Cross(a, b) == <<a[2] * b[3] - a[3] * b[2],
                 a[3] * b[1] - a[1] * b[3],
                 a[1] * b[2] - a[2] * b[1]>>

\* sqrt(np.sum(v * v)), exact on the vectors the model reaches (one non-zero
\* component); the integer part of the root otherwise
Mag(v) ==
    LET s == VSum(VMul(v, v))
    IN  CHOOSE r \in 0..s : r * r <= s /\ (r + 1) * (r + 1) > s

(***************************************************************************)
(* The train the solver is explored on.  Four gears on four shafts, all    *)
(* rotating about z: g1 -m1- g2 -m2- g3, and g0 with no mesh.  The pitch   *)
(* radius d/2 = 1 is the distance from a gear's centre to its mesh points. *)
(***************************************************************************)
Gears == {"g0", "g1", "g2", "g3"}

Meshes == {"m1", "m2"}

Shafts == {"s0", "s1", "s2", "s3"}

Comps == Gears \cup Shafts

onShaft(g) == CASE g = "g0" -> "s0" [] g = "g1" -> "s1"
                [] g = "g2" -> "s2" [] g = "g3" -> "s3"

meshesOf(g) == CASE g = "g0" -> <<>> [] g = "g1" -> <<"m1">>
                 [] g = "g2" -> <<"m1", "m2">> [] g = "g3" -> <<"m2">>

drivingGear(m) == IF m = "m1" THEN "g1" ELSE "g2"

drivenGear(m) == IF m = "m1" THEN "g2" ELSE "g3"

meshLoc(m) == IF m = "m1" THEN <<1, 0, 0>> ELSE <<3, 0, 0>>

\* Gear attributes read by the solver.  kr = tan(phi_n)/cos(psi),
\* ka = tan(|psi|), sgnPsi = sign(psi); for a bevel-like gear
\* krB = tan(phi_n)*cos(gamma), kaB = tan(|phi_n|)*sin(gamma).
GearGeom ==
    [g \in Gears |->
        [abs_loc |-> CASE g = "g0" -> <<0, 5, 0>> [] g = "g1" -> <<0, 0, 0>>
                       [] g = "g2" -> <<2, 0, 0>> [] g = "g3" -> <<4, 0, 0>>,
         axis    |-> <<0, 0, 1>>,
         d       |-> 2,
         d_av    |-> 2,
         sgnPsi  |-> IF g = "g2" THEN -1 ELSE 1,
         ka      |-> 1,
         kr      |-> IF g = "g2" THEN 2 ELSE 1,
         krB     |-> 1,
         kaB     |-> 1]]

gearNo(g) == CASE g = "g0" -> 0 [] g = "g1" -> 1 [] g = "g2" -> 2 [] g = "g3" -> 3

shaftAxis(s) == IF s = "s3" THEN <<0, 0, -1>> ELSE <<0, 0, 1>>

\* Gear.name: the given label, or the constructor's default "" for every gear
name(c, g) == IF c.names = "distinct" THEN g ELSE ""

\* mesh.radiality: one row, or two rows (driving side first); in the
\* "mixed" train m1 has one row and m2 two
radiality(c, m) ==
    IF c.radiality = "single" \/ (c.radiality = "mixed" /\ m = "m1")
    THEN << <<1, 0, 0>> >>
    ELSE << <<1, 0, 0>>, <<-1, 0, 0>> >>

\* whether the gear object carries the attributes d_av and gamma
hasBevelAttrs(c, g) == c.bevel

(***************************************************************************)
(* Force and Torque objects.  A Force is [force, loc, id]: id is the       *)
(* object's identity.  Torques live in the heap tq (id -> [torque, loc])   *)
(* because calculateForces updates a torque's array in place; ETs hold     *)
(* their ids.  Only a gear constructs the forces of its own EFs, and each  *)
(* one is appended, so a new Force is identified by the place it takes in  *)
(* that sequence; a gear constructs a Torque only while its ETs is empty,  *)
(* so the gear's number identifies it.                                     *)
(***************************************************************************)
Force(f, loc, id) == [force |-> f, loc |-> loc, id |-> id]

\* The class defines +, - and unary - only: == falls back to identity
ForceEq(a, b) == a.id = b.id

moment(ef, location, axis) ==
    VMul(Cross(ef.force, VSub(ef.loc, location)), VAbs(axis))

RECURSIVE SumMoments(_, _, _)
SumMoments(efs, location, axis) ==
    IF efs = <<>> THEN Zero3
    ELSE VAdd(moment(Head(efs), location, axis),
              SumMoments(Tail(efs), location, axis))

RECURSIVE SumTorques(_, _)
SumTorques(ets, heap) ==
    IF ets = <<>> THEN Zero3
    ELSE VAdd(heap[Head(ets)].torque, SumTorques(Tail(ets), heap))

(***************************************************************************)
(* Component.updateEFs / updateETs: append what is not already there.      *)
(***************************************************************************)
RECURSIVE updateEFs(_, _)
updateEFs(cur, new) ==
    IF new = <<>> THEN cur
    ELSE LET ef == Head(new)
             present == \E i \in 1..Len(cur) : ForceEq(cur[i], ef)
         IN  updateEFs(IF present THEN cur ELSE Append(cur, ef), Tail(new))

RECURSIVE updateETs(_, _)
updateETs(cur, new) ==
    IF new = <<>> THEN cur
    ELSE LET et == Head(new)
             present == \E i \in 1..Len(cur) : cur[i] = et
         IN  updateETs(IF present THEN cur ELSE Append(cur, et), Tail(new))

(***************************************************************************)
(* Gear.checkTorqueEquilibrium                                             *)
(***************************************************************************)
TorqueTol == 1

checkTorqueEquilibrium(efs, ets, heap, g) ==
    IF efs = <<>> /\ ets = <<>> THEN FALSE
    ELSE LET eq == VAdd(SumTorques(ets, heap),
                        SumMoments(efs, GearGeom[g].abs_loc, GearGeom[g].axis))
         IN  \A i \in 1..3 : Abs(eq[i]) <= TorqueTol

(***************************************************************************)
(* Gear.calculateTorque: a fresh Torque, minus the moments of the EFs,     *)
(* appended to the gear's ETs.  Returns the new ETs and heap.              *)
(***************************************************************************)
\* (mutant) the moments are added instead of subtracted
calculateTorqueAdding(efs, ets, heap, g) ==
    LET ET == SumMoments(efs, GearGeom[g].abs_loc, GearGeom[g].axis)
        id == gearNo(g)
    IN  [ETs |-> updateETs(ets, <<id>>),
         tq  |-> heap @@ (id :> [torque |-> ET, loc |-> GearGeom[g].abs_loc])]

calculateTorque(efs, ets, heap, g) ==
    LET ET == VSub(Zero3, SumMoments(efs, GearGeom[g].abs_loc, GearGeom[g].axis))
        id == gearNo(g)
    IN  [ETs |-> updateETs(ets, <<id>>),
         tq  |-> heap @@ (id :> [torque |-> ET, loc |-> GearGeom[g].abs_loc])]

\* the sign of a gear on a mesh: -1 when its name is the driving gear's name
signOf(c, g, m) == IF name(c, g) = name(c, drivingGear(m)) THEN -1 ELSE 1

(***************************************************************************)
(* Gear.calculateForces(mesh).  ETs[0].torque is decremented IN PLACE by   *)
(* the moments of the EFs, then split into F_t, F_r, F_a on the mesh; the  *)
(* force F_t + F_r + F_a is appended to the gear's EFs.  The two-row       *)
(* branch reads self.d_av and self.gamma, which Gear.__init__ does not     *)
(* set: on a gear without them the call ends in an AttributeError after    *)
(* the in-place update and before any write to the mesh.                   *)
(***************************************************************************)
\* (mutant) the axial component is left out of the resultant
resultantWithoutAxial(mF_t, mF_r, mF_a) == VAdd(mF_t, mF_r)

\* mesh.F.force = mesh.F_t.force + mesh.F_r.force + mesh.F_a.force
resultant(mF_t, mF_r, mF_a) == VAdd(VAdd(mF_t, mF_r), mF_a)

calculateForces(c, efs, ets, heap, ms, g, m) ==
    LET gg     == GearGeom[g]
        ET     == VSub(heap[ets[1]].torque, SumMoments(efs, gg.abs_loc, gg.axis))
        heap1  == [heap EXCEPT ![ets[1]].torque = ET]
        sign   == signOf(c, g, m)
        rows   == radiality(c, m)
        single == Len(rows) = 1
        rad    == IF single THEN rows[1] ELSE IF sign = 1 THEN rows[2] ELSE rows[1]
        dEff   == IF single THEN gg.d ELSE gg.d_av
        F_t    == LET x == VScale(2, Cross(ET, rad))
                  IN  <<x[1] \div dEff, x[2] \div dEff, x[3] \div dEff>>
        magF_t == Mag(F_t)
        F_r    == VScale(sign * magF_t * (IF single THEN gg.kr ELSE gg.krB), rad)
        F_a    == IF single
                  THEN VScale(Sgn(VSum(shaftAxis(onShaft(g)))) * gg.sgnPsi,
                              VAbs(Cross(rad, VScale(gg.ka, F_t))))
                  ELSE VScale(sign, Cross(rad, VScale(gg.kaB, F_t)))
        mF_t   == VScale(sign, F_t)
        mF_r   == VScale(sign, F_r)
        mF_a   == VSub(Zero3, F_a)
        ef     == Force(VAdd(VAdd(F_t, F_r), F_a), meshLoc(m), Len(efs) + 1)
    IN  IF ~single /\ ~hasBevelAttrs(c, g)
        THEN [err |-> "AttributeError", tq |-> heap1, mesh |-> ms, EFs |-> efs]
        ELSE [err  |-> "none",
              tq   |-> heap1,
              mesh |-> [ms EXCEPT ![m] = [F_t |-> mF_t, F_r |-> mF_r, F_a |-> mF_a,
                                          F   |-> resultant(mF_t, mF_r, mF_a)]],
              EFs  |-> updateEFs(efs, <<ef>>)]

(***************************************************************************)
(* The loop of Gear.solve over self.meshes (lines 154-163): a mesh whose   *)
(* resultant is the zero vector is an unknown; for any other mesh a NEW    *)
(* Force(sign * mesh.F.force, mesh.F.loc) goes through updateEFs.          *)
(***************************************************************************)
RECURSIVE classify(_, _, _, _, _)
classify(c, ms, g, todo, acc) ==
    IF todo = <<>> THEN acc
    ELSE LET m == Head(todo)
         IN  IF ms[m].F = Zero3
             THEN classify(c, ms, g, Tail(todo),
                           [acc EXCEPT !.unknown_Fs = @ + 1, !.unknown_mesh = m])
             ELSE classify(c, ms, g, Tail(todo),
                           [acc EXCEPT
                              !.EFs = updateEFs(@, <<Force(VScale(signOf(c, g, m), ms[m].F),
                                                           meshLoc(m), Len(acc.EFs) + 1)>>)])

(***************************************************************************)
(* Gear.solve, as a function of the state: the state it leaves and what it *)
(* reported.  solveUnbalanced is the branch taken when the gear has meshes *)
(* and checkTorqueEquilibrium() returned False.                            *)
(***************************************************************************)
solveUnbalanced(g) ==
    LET sh == onShaft(g)
        unknown_Ts == IF ETs[g] = <<>> THEN 1 ELSE 0
        cl == classify(cfg, mesh, g, meshesOf(g),
                       [EFs |-> EFs[g], unknown_Fs |-> 0, unknown_mesh |-> "none"])
    IN  IF cl.unknown_Fs + unknown_Ts > 1
        THEN [EFs |-> [EFs EXCEPT ![g] = cl.EFs], ETs |-> ETs, tq |-> tq,
              mesh |-> mesh, outcome |-> "unsolvable"]
        ELSE IF unknown_Ts = 1
        THEN LET t  == calculateTorque(cl.EFs, ETs[g], tq, g)
             IN  [EFs |-> [EFs EXCEPT ![g] = cl.EFs],
                  ETs |-> [ETs EXCEPT ![g] = t.ETs, ![sh] = updateETs(@, t.ETs)],
                  tq |-> t.tq, mesh |-> mesh, outcome |-> "torque"]
        ELSE IF cl.unknown_Fs = 1
        THEN LET f == calculateForces(cfg, cl.EFs, ETs[g], tq, mesh, g, cl.unknown_mesh)
             IN  IF f.err # "none"
                 THEN [EFs |-> [EFs EXCEPT ![g] = f.EFs], ETs |-> ETs,
                       tq |-> f.tq, mesh |-> f.mesh, outcome |-> f.err]
                 ELSE [EFs |-> [EFs EXCEPT ![g] = f.EFs, ![sh] = updateEFs(@, f.EFs)],
                       ETs |-> ETs, tq |-> f.tq, mesh |-> f.mesh, outcome |-> "force"]
        ELSE [EFs |-> [EFs EXCEPT ![g] = cl.EFs], ETs |-> ETs, tq |-> tq,
              mesh |-> mesh, outcome |-> "unbalanced"]

\* (mutant) the known mesh forces are registered before the equilibrium check
solveRegisteringFirst(g) ==
    LET cl == classify(cfg, mesh, g, meshesOf(g),
                       [EFs |-> EFs[g], unknown_Fs |-> 0, unknown_mesh |-> "none"])
    IN  IF meshesOf(g) = <<>>
        THEN [EFs |-> EFs, ETs |-> ETs, tq |-> tq, mesh |-> mesh,
              outcome |-> "unconfigured"]
        ELSE IF checkTorqueEquilibrium(EFs[g], ETs[g], tq, g)
        THEN [EFs |-> [EFs EXCEPT ![g] = cl.EFs], ETs |-> ETs, tq |-> tq,
              mesh |-> mesh, outcome |-> "nothing"]
        ELSE solveUnbalanced(g)

solve(g) ==
    IF meshesOf(g) = <<>>
    THEN [EFs |-> EFs, ETs |-> ETs, tq |-> tq, mesh |-> mesh, outcome |-> "unconfigured"]
    ELSE IF checkTorqueEquilibrium(EFs[g], ETs[g], tq, g)
    THEN [EFs |-> EFs, ETs |-> ETs, tq |-> tq, mesh |-> mesh, outcome |-> "nothing"]
    ELSE solveUnbalanced(g)

(***************************************************************************)
(* State of the solver part.                                               *)
(*   EFs, ETs : per component (gear or shaft), the sequences of forces and *)
(*              of torque ids                                              *)
(*   tq       : the Torque objects                                         *)
(*   mesh     : per mesh, F_t, F_r, F_a and the resultant F                *)
(*   cfg      : the configuration of the train, fixed at construction      *)
(*   last     : the last call, what it reported and what it changed        *)
(***************************************************************************)
\* what a call on gear g changed, between the state (a) it found and the
\* state (b) it left: the gear's EFs or ETs, a torque value, a mesh force
\* field, the owning shaft's EFs or ETs
changedBy(g, a, b) ==
    {x \in {"EFs"} : a.EFs[g] # b.EFs[g]}
    \cup {x \in {"ETs"} : a.ETs[g] # b.ETs[g]}
    \cup {x \in {"torque"} : \E i \in DOMAIN a.tq : a.tq[i] # b.tq[i]}
    \cup {x \in {"mesh"} : a.mesh # b.mesh}
    \cup {x \in {"shaftEFs"} : a.EFs[onShaft(g)] # b.EFs[onShaft(g)]}
    \cup {x \in {"shaftETs"} : a.ETs[onShaft(g)] # b.ETs[onShaft(g)]}

unresolvedMesh == [F_t |-> Zero3, F_r |-> Zero3, F_a |-> Zero3, F |-> Zero3]

\* a mesh force resolved before the run starts (by a component outside the train)
knownMesh == [F_t |-> <<0, 2, 0>>, F_r |-> <<1, 0, 0>>, F_a |-> <<0, 0, -1>>,
              F |-> <<1, 2, -1>>]

\* the torque a gear may carry at the start: none, a Torque object of its
\* own, or one it shares with its shaft
TorqueOptions ==
    {t \in [{"g1", "g2", "g3"} -> {"none", "own", "shared"}] :
        t["g1"] # "own" /\ t["g3"] # "shared"}

\* what solve() finds on entry, kept for the claims' preconditions
entry(g) ==
    [noETs    |-> ETs[g] = <<>>,
     noEFs    |-> EFs[g] = <<>>,
     nMeshes  |-> Len(meshesOf(g)),
     nUnknown |-> Cardinality({i \in 1..Len(meshesOf(g)) : mesh[meshesOf(g)[i]].F = Zero3}),
     balanced |-> checkTorqueEquilibrium(EFs[g], ETs[g], tq, g)]

SolverInit ==
    \E names \in {"distinct", "default"}, rk \in {"single", "dual", "mixed"},
       bv \in BOOLEAN, known \in [Meshes -> BOOLEAN], topt \in TorqueOptions :
        LET has(g) == g # "g0" /\ topt[g] # "none"
            e == [c \in Comps |-> <<>>]
            t == [c \in Comps |->
                    IF c \in Gears
                    THEN IF has(c) THEN <<gearNo(c)>> ELSE <<>>
                    ELSE LET g == CHOOSE x \in Gears : onShaft(x) = c
                         IN  IF g # "g0" /\ topt[g] = "shared" THEN <<gearNo(g)>> ELSE <<>>]
            h == [i \in {gearNo(g) : g \in {x \in Gears : has(x)}} |->
                    [torque |-> <<0, 0, 2>>,
                     loc |-> GearGeom[CHOOSE g \in Gears : gearNo(g) = i].abs_loc]]
            ms == [m \in Meshes |-> IF known[m] THEN knownMesh ELSE unresolvedMesh]
        IN  /\ (rk = "single" => ~bv)
            /\ (rk = "mixed" => bv)
            /\ cfg = [names |-> names, radiality |-> rk, bevel |-> bv]
            /\ EFs = e
            /\ ETs = t
            /\ tq = h
            /\ mesh = ms
            /\ last = [op |-> "init", gear |-> "g0", outcome |-> "init",
                       changed |-> {},
                       pre |-> [noETs |-> TRUE, noEFs |-> TRUE, nMeshes |-> 0,
                                nUnknown |-> 0, balanced |-> FALSE]]

\* no interpolator has been constructed
NoInterp == [x |-> <<>>, y |-> <<>>, z |-> <<>>]

InterpIdle ==
    /\ mk = NoInterp
    /\ ires = [op |-> "none"]

\* the gear under analysis as constructed: no analysis output yet
AnalysisIdle ==
    /\ val = <<>>
    /\ src = <<>>
    /\ assigned = {}
    /\ res = [op |-> "init", mesh |-> "none", args |-> <<>>, err |-> [type |-> "none", msg |-> <<>>],
              pre |-> {}, changed |-> {}]
    /\ ncalls = 0

Init == SolverInit /\ AnalysisIdle /\ InterpIdle

\* one call of g.solve()
Solve(g) ==
    /\ Len(EFs[g]) < MaxEFs
    /\ LET r == solve(g)
       IN  /\ EFs' = r.EFs
           /\ ETs' = r.ETs
           /\ tq' = r.tq
           /\ mesh' = r.mesh
           /\ last' = [op |-> "solve", gear |-> g, outcome |-> r.outcome,
                       changed |-> changedBy(g, [EFs |-> EFs, ETs |-> ETs, tq |-> tq,
                                                  mesh |-> mesh], r),
                       pre |-> entry(g)]
    /\ UNCHANGED <<cfg, analysisVars, interpVars>>

Next == \E g \in Gears : Solve(g)

Spec == Init /\ [][Next]_vars

(***************************************************************************)
(* Claims about the equilibrium solver.                                    *)
(***************************************************************************)
solved == last.op = "solve"

unknowns(p) == (IF p.noETs THEN 1 ELSE 0) + p.nUnknown

\* C1: a solve() that finds a gear with at least one mesh, out of torque
\* equilibrium and with more than one unknown (1 if ETs is empty, plus 1 per
\* mesh whose resultant is the zero vector) changes nothing: the gear's EFs
\* and ETs, the mesh force fields and the shaft's EFs and ETs stay as found.
C1_UnsolvableLeavesStateAlone ==
    (solved /\ last.pre.nMeshes > 0 /\ ~last.pre.balanced /\ unknowns(last.pre) > 1)
        => last.changed = {}

\* C2: a solve() on a gear with no mesh, or on a gear already in torque
\* equilibrium, changes nothing and raises no error.
C2_NothingToDoIsNoOp ==
    (solved /\ (last.pre.nMeshes = 0 \/ last.pre.balanced))
        => /\ last.changed = {}
           /\ last.outcome \in {"unconfigured", "nothing"}

C2_Witness ==
    /\ solved /\ last.pre.nMeshes > 0 /\ last.pre.balanced
    /\ EFs[last.gear] # <<>> /\ ETs[last.gear] # <<>>

\* C3: after a solve() that found a gear with at least one mesh, empty ETs,
\* every mesh force known and no torque equilibrium, ETs holds exactly one
\* torque, the negated sum of the moments of the gear's EFs about abs_loc
\* along its axis; the shaft's ETs contains that torque; the gear is in
\* torque equilibrium, and solving it again changes nothing.
C3_TorqueSolved ==
    (solved /\ last.pre.nMeshes > 0 /\ last.pre.noETs /\ last.pre.nUnknown = 0
        /\ ~last.pre.balanced)
        => LET g == last.gear
               gg == GearGeom[g]
               again == solve(g)
           IN  /\ Len(ETs[g]) = 1
               /\ tq[ETs[g][1]].torque = VSub(Zero3, SumMoments(EFs[g], gg.abs_loc, gg.axis))
               /\ \E i \in 1..Len(ETs[onShaft(g)]) : ETs[onShaft(g)][i] = ETs[g][1]
               /\ checkTorqueEquilibrium(EFs[g], ETs[g], tq, g)
               /\ again.EFs = EFs /\ again.ETs = ETs /\ again.tq = tq
               /\ again.mesh = mesh

C3_Witness ==
    /\ solved /\ last.pre.nMeshes = 2 /\ last.pre.noETs /\ last.pre.nUnknown = 0
    /\ ~last.pre.balanced
    /\ Len(ETs[last.gear]) = 1
    /\ tq[ETs[last.gear][1]].torque # Zero3

\* C4: in every state reached by solve() calls, each mesh's resultant is the
\* sum of its three components, F = F_t + F_r + F_a.
C4_ResultantIsSumOfComponents ==
    \A m \in Meshes : mesh[m].F = VAdd(VAdd(mesh[m].F_t, mesh[m].F_r), mesh[m].F_a)

\* both branches of calculateForces have written a mesh: m1 (one radiality
\* row) and m2 (two rows) carry a force that is not the one given at the start
C4_Witness ==
    /\ cfg.radiality = "mixed"
    /\ \A m \in Meshes : mesh[m].F # Zero3 /\ mesh[m] # knownMesh
    /\ \E m \in Meshes : mesh[m].F_a # Zero3

\* C5: EFs and ETs only grow, and no component's EFs holds two entries with
\* the same force vector and application point (the force of one mesh
\* registered twice).
noDoubleCount(efs) ==
    \A i, j \in 1..Len(efs) :
        (efs[i].force = efs[j].force /\ efs[i].loc = efs[j].loc) => i = j

isPrefix(a, b) == Len(a) <= Len(b) /\ \A i \in 1..Len(a) : a[i] = b[i]

C5_AppendOnlyNoDoubleCount ==
    [][\A c \in Comps : /\ isPrefix(EFs[c], EFs'[c])
                        /\ isPrefix(ETs[c], ETs'[c])
                        /\ noDoubleCount(EFs'[c])]_vars

(***************************************************************************)
(* The AGMA analysis pipelines of one gear.                                *)
(*                                                                         *)
(* val is the gear object's dictionary of analysis attributes: an          *)
(* attribute exists once a call has assigned it, and reading one that does *)
(* not exist raises AttributeError.  Table values are fixed-point integers *)
(* (K_0 x100, C_mc and C_pm x10, Y x1000, Y_Z and Z_W x1e5, reliabilities  *)
(* x1e4).  A result of real arithmetic the model does not evaluate (a      *)
(* logarithm, a root, a product of factors) is kept as the record of the   *)
(* operands it is computed from.                                           *)
(*   src      : per attribute, the call (operation and mesh) that stored   *)
(*              its current value                                          *)
(*   assigned : the attributes the last call assigned                      *)
(*   res      : the last call: operation, arguments, the error it raised   *)
(*              and the attributes that existed when it started            *)
(*   ncalls   : the number of calls made so far                            *)
(***************************************************************************)

\* The gear under analysis: m_n = 4, z = 20, psi = 0, FW = 25.
AGear == [m_n |-> 4, z |-> 20, psiDeg |-> 0, Q_v |-> 7, FW |-> 25, m_t |-> 4,
          d |-> 80, h |-> 9, d_f |-> 70, z_p |-> 20, omega |-> 100,
          sumAbsRelLoc |-> 40]

\* The meshes it is analysed on: materials of the two gears, mesh type, gear
\* ratio, min(drivingGear.FW, drivenGear.FW), sum(|F_t|), pitch diameters and
\* Brinell hardnesses.
AMeshes == {"A1", "A2", "A3", "A4", "A5"}

AMesh ==
    [m \in AMeshes |->
        [driving |-> IF m = "A4" THEN "Titanium" ELSE "Steel",
         driven  |-> CASE m = "A2" -> "Cast iron" [] m = "A5" -> "Brass"
                       [] OTHER -> "Steel",
         type    |-> CASE m = "A2" -> "Internal" [] m = "A3" -> "Planetary"
                       [] OTHER -> "External",
         m_G     |-> IF m = "A1" THEN 3 ELSE 2,
         fw_min  |-> IF m = "A2" THEN 30 ELSE 20,
         Ft      |-> IF m = "A2" THEN 200 ELSE 100,
         pd      |-> 80,
         gd      |-> IF m = "A1" THEN 240 ELSE 160,
         pHB     |-> 300,
         gHB     |-> IF m = "A2" THEN 200 ELSE 300]]

NoErr == [type |-> "none", msg |-> <<>>]

\* raise ValueError("<text>"): the message is the literal text
ValueError(text) == [type |-> "ValueError", msg |-> <<text>>]

\* reading an attribute the object does not have
AttributeError(a) ==
    [type |-> "AttributeError", msg |-> <<"'Gear' object has no attribute", a>>]

\* np.interp(...) of a scalar is a scalar; indexing it with [0] raises
IndexError == [type |-> "IndexError", msg |-> <<"invalid index to scalar variable.">>]

\* self.<a> = v, by the call `who`
Put(st, who, a, v) ==
    [val      |-> (a :> v) @@ st.val,
     src      |-> (a :> who) @@ st.src,
     assigned |-> st.assigned \cup {a}]

\* the first of the attributes `names` (in reading order) the object lacks
firstMissing(names, st) ==
    LET miss == {i \in 1..Len(names) : names[i] \notin DOMAIN st.val}
    IN  IF miss = {} THEN "none"
        ELSE names[CHOOSE i \in miss : \A k \in miss : i <= k]

\* index of `x` in `seq` (1-based), 0 when it is not there: the if/elif
\* chains over the category strings
indexOf(x, seq) ==
    IF \E i \in 1..Len(seq) : seq[i] = x
    THEN CHOOSE i \in 1..Len(seq) : seq[i] = x
    ELSE 0

PowerSources == <<"Uniform", "Light shock", "Medium shock">>

DrivenMachines == <<"Uniform", "Moderate shock", "Heavy shock">>

TeethConds == <<"uncrowned teeth", "crowned teeth">>

UseConds == <<"Open gearing", "Commercial, enclosed units",
              "Precision, enclosed units", "Extraprecision enclosed gear units">>

Materials == <<"Steel", "Malleable iron", "Nodular iron", "Cast iron",
               "Aluminum bronze", "Tin bronze">>

K0_ref == << <<100, 125, 175>>, <<125, 150, 200>>, <<150, 175, 225>> >>

\* (A, B, C) of C_ma per use condition, x1e4, x1e4, x1e8
Cma_ref == << <<2470, 167, -7650>>, <<1270, 158, -9300>>,
              <<675, 128, -9260>>, <<36, 102, -8220>> >>

z_ref == <<12, 13, 14, 15, 16, 17, 18, 19, 20, 21, 22, 24, 26, 28, 30, 34, 38, 43,
           50, 60, 75, 100, 150, 300, 400>>

Y_ref == <<245, 261, 277, 290, 296, 303, 309, 314, 322, 328, 331, 337, 346, 353,
           359, 371, 384, 397, 409, 422, 435, 447, 460, 472, 480>>

rel_ref == <<9999, 9990, 9900, 9000, 5000>>

YZ_ref == <<150000, 125000, 100000, 85000, 70000>>

ZE_ref == << <<191, 181, 179, 174, 162, 158>>,
             <<181, 174, 172, 168, 158, 154>>,
             <<179, 172, 170, 166, 156, 152>>,
             <<174, 168, 166, 163, 154, 149>>,
             <<162, 158, 156, 154, 145, 141>>,
             <<158, 154, 152, 149, 141, 137>> >>

\* np.interp(x, xp, fp) for increasing xp: clamped at the ends, linear
\* between two samples (the integer part of the fixed-point value)
npInterp(x, xp, fp) ==
    IF x <= xp[1] THEN fp[1]
    ELSE IF x >= xp[Len(xp)] THEN fp[Len(fp)]
    ELSE LET i == CHOOSE k \in 1..(Len(xp) - 1) : xp[k] <= x /\ x < xp[k + 1]
         IN  fp[i] + ((x - xp[i]) * (fp[i + 1] - fp[i])) \div (xp[i + 1] - xp[i])

(***************************************************************************)
(* Gear.calculateSigmaMaxFatigue(mesh, powerSource, drivenMachine, dShaft, *)
(* Ce, teethCond, lShaft, useCond), from the object state st: the state it *)
(* leaves and the error it raised.  Attributes are assigned one by one, so *)
(* an error leaves the assignments made before it.                         *)
(***************************************************************************)
calculateSigmaMaxFatigue(st, m, a) ==
    LET who    == [op |-> "calculateSigmaMaxFatigue", mesh |-> m]
        fw_min == AMesh[m].fw_min
        i      == indexOf(a.powerSource, PowerSources)
        j      == indexOf(a.drivenMachine, DrivenMachines)
        t_R    == (AGear.d_f - a.dShaft) \div 2
        m_B    == <<t_R, AGear.h>>
        K_B    == [log |-> 10 * t_R < 12 * AGear.h, m_B |-> m_B]
        K_v    == [v |-> AGear.omega * AGear.d, Q_v |-> AGear.Q_v]
        s1     == Put(st, who, "K_0", K0_ref[i][j])
        s2     == Put(Put(Put(s1, who, "t_R", t_R), who, "m_B", m_B), who, "K_B", K_B)
        s3     == Put(Put(s2, who, "K_v", K_v), who, "C_e", a.Ce)
        tc     == indexOf(a.teethCond, TeethConds)
        C_mc   == IF tc = 1 THEN 10 ELSE 8
        s4     == Put(s3, who, "C_mc", C_mc)
        \* regimes of fw_min / 25.4: <= 1, (1, 17], > 17
        C_pf   == [regime |-> IF 10 * fw_min <= 254 THEN 1
                              ELSE IF 10 * fw_min <= 17 * 254 THEN 2 ELSE 3,
                   fw |-> fw_min, d |-> AGear.d]
        \* S1 / lShaft < 0.175 with S1 = |lShaft / 2 - sum|rel_loc||
        C_pm   == IF 1000 * Abs(a.lShaft - 2 * AGear.sumAbsRelLoc) < 350 * a.lShaft
                  THEN 10 ELSE 11
        s5     == Put(Put(s4, who, "C_pf", C_pf), who, "C_pm", C_pm)
        uc     == indexOf(a.useCond, UseConds)
        C_ma   == [ABC |-> Cma_ref[uc], fw |-> fw_min]
        K_H    == [C_mc |-> C_mc, C_pf |-> C_pf, C_pm |-> C_pm, C_ma |-> C_ma,
                   C_e |-> a.Ce]
        Y      == npInterp(AGear.z_p, z_ref, Y_ref)
        K_S    == [fw |-> fw_min, m_t |-> AGear.m_t, Y |-> Y]
        J_p    == [chart |-> "Jp_ref", psi |-> Abs(AGear.psiDeg), z |-> AGear.z]
        J_pp   == [chart |-> "Jpp_ref", psi |-> Abs(AGear.psiDeg), z |-> AGear.z]
        Y_J    == [J_p |-> J_p, J_pp |-> J_pp]
        sigma  == [Ft |-> AMesh[m].Ft, K_0 |-> K0_ref[i][j], K_B |-> K_B, K_v |-> K_v,
                   K_H |-> K_H, K_S |-> K_S, fw |-> fw_min, m_t |-> AGear.m_t,
                   Y_J |-> Y_J]
        s6     == Put(Put(Put(Put(s5, who, "C_ma", C_ma), who, "K_H", K_H),
                          who, "Y", Y), who, "K_S", K_S)
        s7     == Put(Put(Put(s6, who, "J_p", J_p), who, "J_pp", J_pp), who, "Y_J", Y_J)
        s8     == Put(s7, who, "sigma_max_fatigue", sigma)
    IN  IF i = 0 THEN [st |-> st, err |-> ValueError("Wrong input for power source")]
        ELSE IF j = 0
        THEN [st |-> st, err |-> ValueError("Wrong input for driven machine")]
        ELSE IF tc = 0
        THEN [st |-> s3, err |-> ValueError("Invalid input for teeth condition.")]
        ELSE IF uc = 0
        THEN [st |-> s5, err |-> ValueError("wrong input for use.")]
        ELSE [st |-> s8, err |-> NoErr]

(***************************************************************************)
(* Gear.calculateBendingSF(sigma_FP, b_YN, e_YN, N, temp, rel)             *)
(***************************************************************************)
RECURSIVE Pow(_, _)
Pow(b, e) == IF e = 0 THEN 1 ELSE b * Pow(b, e - 1)

\* whether line 341-342 assigns Y_theta
tempFactorAssigned(temp) == temp <= 120

\* lines 343-347: the table value on an exact match; otherwise
\* np.interp(rel, rel_ref, YZ_ref)[0] with a scalar rel, which raises
reliabilityFactor(rel) ==
    IF indexOf(rel, rel_ref) # 0
    THEN [err |-> NoErr, Y_Z |-> YZ_ref[indexOf(rel, rel_ref)]]
    ELSE [err |-> IndexError, Y_Z |-> 0]

calculateBendingSF(st, a) ==
    LET who == [op |-> "calculateBendingSF", mesh |-> "none"]
        Y_N == a.b_YN * Pow(a.N, a.e_YN)
        s1  == Put(Put(st, who, "sigma_FP", a.sigma_FP), who, "Y_N", Y_N)
        s2  == IF tempFactorAssigned(a.temp) THEN Put(s1, who, "Y_theta", 1) ELSE s1
        yz  == reliabilityFactor(a.rel)
        s3  == Put(s2, who, "Y_Z", yz.Y_Z)
        mis == firstMissing(<<"sigma_max_fatigue", "Y_theta">>, s3)
        sf  == [sigma_FP |-> a.sigma_FP, Y_N |-> Y_N,
                sigma_max_fatigue |-> s3.val["sigma_max_fatigue"],
                Y_theta |-> s3.val["Y_theta"], Y_Z |-> yz.Y_Z]
    IN  IF yz.err # NoErr THEN [st |-> s2, err |-> yz.err]
        ELSE IF mis # "none" THEN [st |-> s3, err |-> AttributeError(mis)]
        ELSE [st |-> Put(s3, who, "bendingSF", sf), err |-> NoErr]

(***************************************************************************)
(* Gear.calculateSigmaMaxPitting(mesh, Z_R)                                *)
(***************************************************************************)
\* (mutant) the two mesh types take each other's divisor
ZIdivisorSwapped(type, m_G) ==
    IF type = "External" THEN m_G - 1
    ELSE IF type = "Internal" THEN m_G + 1
    ELSE 0

\* the last divisor of Z_I: m_G + 1 on an external mesh, m_G - 1 on an
\* internal one, 0 for any other type (no Z_I is computed then)
ZIdivisor(type, m_G) ==
    IF type = "External" THEN m_G + 1
    ELSE IF type = "Internal" THEN m_G - 1
    ELSE 0

\* (mutant) the bending factors are read with a default when absent
missingFactorDefaulted(st) == "none"

\* line 408 reads self.K_0, self.K_v, self.K_S, self.K_H, in this order
missingFactor(st) == firstMissing(<<"K_0", "K_v", "K_S", "K_H">>, st)

\* the value of attribute a ("absent" stands for no such attribute)
attr(st, a) == IF a \in DOMAIN st.val THEN st.val[a] ELSE "absent"

calculateSigmaMaxPitting(st, m, a) ==
    LET who   == [op |-> "calculateSigmaMaxPitting", mesh |-> m]
        mm    == AMesh[m]
        i     == indexOf(mm.driving, Materials)
        j     == indexOf(mm.driven, Materials)
        s1    == Put(st, who, "Z_E", ZE_ref[i][j])
        \* m_N = p_n * cos(phi_n) / 0.95 / Z, Z from the two pitch diameters
        \* and addenda
        m_N   == [p_n |-> AGear.m_n, pd |-> mm.pd, gd |-> mm.gd]
        s2    == Put(s1, who, "m_N", m_N)
        known == mm.type \in {"External", "Internal"}
        \* Z_I = cos(phi_t) * sin(phi_t) * m_G / 2 / m_N / k
        Z_I   == [m_G |-> mm.m_G, m_N |-> m_N, k |-> ZIdivisor(mm.type, mm.m_G)]
        s3    == Put(s2, who, "Z_I", Z_I)
        mis   == missingFactor(s3)
        sigma == [Z_E |-> ZE_ref[i][j], Ft |-> mm.Ft, K_0 |-> attr(s3, "K_0"),
                  K_v |-> attr(s3, "K_v"), K_S |-> attr(s3, "K_S"), K_H |-> attr(s3, "K_H"),
                  Z_R |-> a.Z_R, FW |-> AGear.FW, d |-> AGear.d, Z_I |-> Z_I]
    IN  IF i = 0 THEN [st |-> st, err |-> ValueError("Wrong input for pinion material.")]
        ELSE IF j = 0
        THEN [st |-> st, err |-> ValueError("Wrong input for gear material.")]
        ELSE IF ~known
        THEN [st |-> s2, err |-> ValueError("Gear mesh type invalid.")]
        ELSE IF Z_I.k = 0
        THEN [st |-> s2, err |-> [type |-> "ZeroDivisionError",
                                  msg |-> <<"float division by zero">>]]
        ELSE IF mis # "none" THEN [st |-> s3, err |-> AttributeError(mis)]
        ELSE [st |-> Put(s3, who, "sigma_max_pitting", sigma), err |-> NoErr]

(***************************************************************************)
(* Gear.calculateWearSF(sigma_HP, b_ZN, e_ZN, N, mesh)                     *)
(***************************************************************************)
calculateWearSF(st, m, a) ==
    LET who == [op |-> "calculateWearSF", mesh |-> m]
        mm  == AMesh[m]
        Z_N == a.b_ZN * Pow(a.N, a.e_ZN)
        s1  == Put(Put(st, who, "sigma_HP", a.sigma_HP), who, "Z_N", Z_N)
        \* HB_ratio = pHB / gHB against 1.2 and 1.7; A_p x1e5
        A_p == IF 10 * mm.pHB < 12 * mm.gHB THEN 0
               ELSE IF 10 * mm.pHB <= 17 * mm.gHB
               THEN (898 * mm.pHB) \div mm.gHB - 829
               ELSE 698
        Z_W == 100000 + A_p * (mm.m_G - 1)
        s2  == Put(s1, who, "Z_W", Z_W)
        mis == firstMissing(<<"sigma_max_pitting", "Y_theta", "Y_Z">>, s2)
        sf  == [sigma_HP |-> a.sigma_HP, Z_N |-> Z_N, Z_W |-> Z_W,
                sigma_max_pitting |-> s2.val["sigma_max_pitting"],
                Y_theta |-> s2.val["Y_theta"], Y_Z |-> s2.val["Y_Z"]]
    IN  IF mis # "none" THEN [st |-> s2, err |-> AttributeError(mis)]
        ELSE [st |-> Put(s2, who, "wearSF", sf), err |-> NoErr]

(***************************************************************************)
(* The two drivers: the stress, then the safety factor.                    *)
(***************************************************************************)
analyseGearToothBending(st, m, a, b) ==
    LET r == calculateSigmaMaxFatigue(st, m, a)
    IN  IF r.err # NoErr THEN r ELSE calculateBendingSF(r.st, b)

analyseGearToothPitting(st, m, a, b) ==
    LET r == calculateSigmaMaxPitting(st, m, a)
    IN  IF r.err # NoErr THEN r ELSE calculateWearSF(r.st, m, b)

(***************************************************************************)
(* The arguments the calls are explored with.                              *)
(***************************************************************************)
fatigueArgs(ps, dm, dShaft, Ce, tc, lShaft, uc) ==
    [powerSource |-> ps, drivenMachine |-> dm, dShaft |-> dShaft, Ce |-> Ce,
     teethCond |-> tc, lShaft |-> lShaft, useCond |-> uc]

\* three valid argument lists, and four with one category string outside
\* its recognised set
ValidFatigueArgs ==
    {fatigueArgs("Uniform", "Uniform", 40, 1, "uncrowned teeth", 100, "Open gearing"),
     fatigueArgs("Medium shock", "Heavy shock", 50, 2, "crowned teeth", 200,
                 "Commercial, enclosed units"),
     fatigueArgs("Light shock", "Moderate shock", 50, 1, "crowned teeth", 100,
                 "Precision, enclosed units")}

InvalidFatigueArgs ==
    {fatigueArgs("Electric motor", "Heavy shock", 50, 2, "crowned teeth", 200,
                 "Extraprecision enclosed gear units"),
     fatigueArgs("Medium shock", "Crusher", 50, 2, "crowned teeth", 200,
                 "Commercial, enclosed units"),
     fatigueArgs("Medium shock", "Heavy shock", 50, 2, "crowned", 200,
                 "Commercial, enclosed units"),
     fatigueArgs("Medium shock", "Heavy shock", 50, 2, "crowned teeth", 200,
                 "Sealed")}

\* meshes with resolved forces and known materials, for the bending calls
BendingMeshes == {"A1", "A2"}

FatigueCalls ==
    ({"A1"} \X ValidFatigueArgs)
    \cup ({"A2"} \X ({a \in ValidFatigueArgs : a.Ce = 2} \cup InvalidFatigueArgs))

bendingArgs(b_YN, temp, rel) ==
    [sigma_FP |-> 300, b_YN |-> b_YN, e_YN |-> 1, N |-> 2, temp |-> temp, rel |-> rel]

BendingArgs ==
    {bendingArgs(1, 120, r) : r \in {9999, 9990, 9900, 9000, 5000, 7500}}
    \cup {bendingArgs(2, 150, 9900), bendingArgs(2, 150, 7500)}

PittingArgs == [Z_R : {1}]

WearArgs == [sigma_HP : {900}, b_ZN : {2}, e_ZN : {1}, N : {2}]

object == [val |-> val, src |-> src, assigned |-> {}]

\* the attributes a call created or gave another value
changedAttrs(before, after) ==
    {a \in DOMAIN after : a \notin DOMAIN before \/ before[a] # after[a]}

returns(op, m, a, r) ==
    /\ ncalls < MaxCalls
    /\ ncalls' = ncalls + 1
    /\ val' = r.st.val
    /\ src' = r.st.src
    /\ assigned' = r.st.assigned
    /\ res' = [op |-> op, mesh |-> m, args |-> a, err |-> r.err, pre |-> DOMAIN val,
               changed |-> changedAttrs(val, r.st.val)]
    /\ UNCHANGED <<solverVars, interpVars>>

SigmaMaxFatigue ==
    \E c \in FatigueCalls :
        returns("calculateSigmaMaxFatigue", c[1], c[2],
                calculateSigmaMaxFatigue(object, c[1], c[2]))

BendingSF ==
    \E a \in BendingArgs :
        returns("calculateBendingSF", "none", a, calculateBendingSF(object, a))

SigmaMaxPitting ==
    \E m \in AMeshes, a \in PittingArgs :
        returns("calculateSigmaMaxPitting", m, a, calculateSigmaMaxPitting(object, m, a))

WearSF ==
    \E m \in BendingMeshes, a \in WearArgs :
        returns("calculateWearSF", m, a, calculateWearSF(object, m, a))

ToothBending ==
    \E c \in {x \in FatigueCalls : x[2].Ce = 2 /\ x[2].drivenMachine = "Heavy shock"
                                   /\ x[2].useCond # "Sealed"},
       b \in {x \in BendingArgs : x.rel = 9900} :
        returns("analyseGearToothBending", c[1], <<c[2], b>>,
                analyseGearToothBending(object, c[1], c[2], b))

ToothPitting ==
    \E m \in {"A1", "A3"}, a \in PittingArgs, b \in WearArgs :
        returns("analyseGearToothPitting", m, <<a, b>>,
                analyseGearToothPitting(object, m, a, b))

\* the solver part at rest while the analysis runs
SolverIdle ==
    /\ cfg = [names |-> "distinct", radiality |-> "single", bevel |-> FALSE]
    /\ EFs = [c \in Comps |-> <<>>]
    /\ ETs = [c \in Comps |-> <<>>]
    /\ tq = <<>>
    /\ mesh = [m \in Meshes |-> knownMesh]
    /\ last = [op |-> "init", gear |-> "g0", outcome |-> "init", changed |-> {},
               pre |-> [noETs |-> TRUE, noEFs |-> TRUE, nMeshes |-> 0,
                        nUnknown |-> 0, balanced |-> FALSE]]

InitAnalysis == SolverIdle /\ AnalysisIdle /\ InterpIdle

NextAnalysis ==
    \/ SigmaMaxFatigue
    \/ BendingSF
    \/ SigmaMaxPitting
    \/ WearSF
    \/ ToothBending
    \/ ToothPitting

SpecAnalysis == InitAnalysis /\ [][NextAnalysis]_vars

(***************************************************************************)
(* Claims about the analysis pipelines.                                    *)
(***************************************************************************)
Range(seq) == {seq[i] : i \in 1..Len(seq)}

\* the category strings of a call that are outside their recognised sets,
\* each with the words by which an error message would name its category
offending ==
    IF res.op = "calculateSigmaMaxFatigue"
    THEN {c \in {[cat |-> "power source", value |-> res.args.powerSource,
                  ok |-> res.args.powerSource \in Range(PowerSources)],
                 [cat |-> "driven machine", value |-> res.args.drivenMachine,
                  ok |-> res.args.drivenMachine \in Range(DrivenMachines)],
                 [cat |-> "teeth condition", value |-> res.args.teethCond,
                  ok |-> res.args.teethCond \in Range(TeethConds)],
                 [cat |-> "use", value |-> res.args.useCond,
                  ok |-> res.args.useCond \in Range(UseConds)]} : ~c.ok}
    ELSE IF res.op = "calculateSigmaMaxPitting"
    THEN {c \in {[cat |-> "pinion material", value |-> AMesh[res.mesh].driving,
                  ok |-> AMesh[res.mesh].driving \in Range(Materials)],
                 [cat |-> "gear material", value |-> AMesh[res.mesh].driven,
                  ok |-> AMesh[res.mesh].driven \in Range(Materials)],
                 [cat |-> "mesh type", value |-> AMesh[res.mesh].type,
                  ok |-> AMesh[res.mesh].type \in {"External", "Internal"}]} : ~c.ok}
    ELSE {}

\* the category each message of the code names
categoryNamed(msg) ==
    CASE msg[1] = "Wrong input for power source" -> "power source"
      [] msg[1] = "Wrong input for driven machine" -> "driven machine"
      [] msg[1] = "Invalid input for teeth condition." -> "teeth condition"
      [] msg[1] = "wrong input for use." -> "use"
      [] msg[1] = "Wrong input for pinion material." -> "pinion material"
      [] msg[1] = "Wrong input for gear material." -> "gear material"
      [] msg[1] = "Gear mesh type invalid." -> "mesh type"
      [] OTHER -> "none"

stresses == {"sigma_max_fatigue", "sigma_max_pitting"}

\* C6: a calculateSigmaMaxFatigue or calculateSigmaMaxPitting call with a
\* category string outside its recognised set raises an error to the caller
\* that identifies the offending category and the invalid value, and assigns
\* no stress value.
C6_CategoricalErrorNamesCategoryAndValue ==
    offending # {}
        => /\ res.err.type = "ValueError"
           /\ assigned \cap stresses = {}
           /\ \E c \in offending : /\ categoryNamed(res.err.msg) = c.cat
                                   /\ c.value \in Range(res.err.msg)

\* the table reliabilities on both sides of rel, when rel is strictly between
\* two adjacent ones, and the linear interpolation of Y_Z between them
between(rel) ==
    {i \in 1..(Len(rel_ref) - 1) : rel_ref[i] > rel /\ rel > rel_ref[i + 1]}

interpolatedYZ(rel) ==
    LET i == CHOOSE k \in between(rel) : TRUE
    IN  YZ_ref[i + 1] + ((rel - rel_ref[i + 1]) * (YZ_ref[i] - YZ_ref[i + 1]))
                            \div (rel_ref[i] - rel_ref[i + 1])

\* C7: calculateBendingSF (with the bending stress known and temp <= 120)
\* sets Y_Z to the paired table value when rel is a table reliability, and
\* to the linear interpolation between the two neighbouring table values
\* when rel lies strictly between two of them; the call completes and
\* produces bendingSF.
C7_ReliabilityFactor ==
    (res.op = "calculateBendingSF" /\ "sigma_max_fatigue" \in res.pre
        /\ res.args.temp <= 120)
        => LET rel == res.args.rel
               hit == indexOf(rel, rel_ref)
           IN  /\ hit # 0 => /\ res.err = NoErr
                             /\ {"Y_Z", "bendingSF"} \subseteq assigned
                             /\ val["Y_Z"] = YZ_ref[hit]
               /\ (hit = 0 /\ between(rel) # {})
                     => /\ res.err = NoErr
                        /\ {"Y_Z", "bendingSF"} \subseteq assigned
                        /\ val["Y_Z"] = interpolatedYZ(rel)

\* C8: with both materials recognised, calculateSigmaMaxPitting stores
\* Z_I = cos(phi_t)*sin(phi_t)*m_G / (2*m_N*(m_G+1)) on an External mesh and
\* the same with (m_G-1) on an Internal mesh; for any other mesh type it
\* raises the categorical error and assigns neither Z_I nor sigma_max_pitting.
C8_SurfaceGeometryByMeshType ==
    (res.op = "calculateSigmaMaxPitting"
        /\ AMesh[res.mesh].driving \in Range(Materials)
        /\ AMesh[res.mesh].driven \in Range(Materials))
        => LET mm == AMesh[res.mesh]
               stored(k) == /\ "Z_I" \in assigned
                            /\ val["Z_I"] = [m_G |-> mm.m_G, m_N |-> val["m_N"], k |-> k]
                            /\ "m_N" \in assigned
           IN  /\ mm.type = "External" => stored(mm.m_G + 1)
               /\ mm.type = "Internal" => stored(mm.m_G - 1)
               /\ mm.type \notin {"External", "Internal"}
                     => /\ res.err = ValueError("Gear mesh type invalid.")
                        /\ assigned \cap {"Z_I", "sigma_max_pitting"} = {}

C8_Witness ==
    /\ res.op = "calculateSigmaMaxPitting"
    /\ AMesh[res.mesh].type = "Internal"
    /\ res.err = NoErr
    /\ "sigma_max_pitting" \in assigned
    /\ val["sigma_max_pitting"].Z_I.k = AMesh[res.mesh].m_G - 1

\* C9: a calculateBendingSF call that returns has assigned each of Y_N,
\* Y_theta, Y_Z and bendingSF itself, from its own arguments and the current
\* sigma_max_fatigue, whatever the arguments (temp > 120 included).
C9_BendingOutputsOverwritten ==
    (res.op = "calculateBendingSF" /\ res.err = NoErr)
        => /\ {"Y_N", "Y_theta", "Y_Z", "bendingSF"} \subseteq assigned
           /\ val["Y_N"] = res.args.b_YN * Pow(res.args.N, res.args.e_YN)
           /\ val["bendingSF"].sigma_max_fatigue = val["sigma_max_fatigue"]

bendingFactors == {"K_0", "K_v", "K_S", "K_H"}

pittingOps == {"calculateSigmaMaxPitting", "calculateWearSF", "analyseGearToothPitting"}

\* the factors a produced pitting stress and wear safety factor use are the
\* stored ones, each stored by a bending call accepted by `fromMesh`
usesBendingFactors(fromMesh(_)) ==
    /\ "sigma_max_pitting" \in assigned
          => \A f \in bendingFactors :
                /\ f \in DOMAIN val
                /\ val["sigma_max_pitting"][f] = val[f]
                /\ src[f].op = "calculateSigmaMaxFatigue"
                /\ fromMesh(src[f].mesh)
    /\ "wearSF" \in assigned
          => \A f \in {"Y_theta", "Y_Z"} :
                /\ f \in DOMAIN val
                /\ val["wearSF"][f] = val[f]
                /\ src[f].op = "calculateBendingSF"

pittingKeepsFactors ==
    res.op \in pittingOps => assigned \cap (bendingFactors \cup {"Y_theta", "Y_Z"}) = {}

\* C10 (as stated): every sigma_max_pitting and wearSF produced uses the
\* K_0, K_v, K_S, K_H (and Y_theta, Y_Z) stored by an earlier bending
\* evaluation of the gear on the same mesh; the pitting pipeline never
\* modifies those factors and produces no stress when no bending evaluation
\* has run.
C10_PittingAfterBendingOnSameMesh ==
    res.op \in pittingOps
        => LET sameMesh(m) == m = res.mesh
           IN  usesBendingFactors(sameMesh) /\ pittingKeepsFactors

\* C10 (amended): the same, for a bending evaluation on any mesh.
C10_PittingAfterBending ==
    res.op \in pittingOps
        => LET anyMesh(m) == m \in AMeshes
           IN  usesBendingFactors(anyMesh) /\ pittingKeepsFactors

C10_Witness ==
    /\ res.op = "calculateWearSF"
    /\ "wearSF" \in assigned
    /\ src["K_0"].mesh # src["sigma_max_pitting"].mesh

(***************************************************************************)
(* The 2-D interpolator (Makima2DInterpolator).                            *)
(*                                                                         *)
(* Sample positions are integers one or two apart and table values are     *)
(* multiples of 4, so that both secant slopes of a two-pass evaluation are *)
(* integers.  Queries are taken at sample positions and outside the        *)
(* sampled range: inside the range and off the samples the value is the    *)
(* Akima spline's, which is scipy's and is not modelled.                   *)
(***************************************************************************)
\* the x and y sample sequences offered to the constructor
XAxes == {<<0, 2, 4>>, <<1, 2, 4>>}

YAxes == {<<0, 1>>, <<10, 12, 13>>}

\* the table z[j][i] = c0 + cx*i + cy*j + cxy*i*j + cxx*i*i, of nRows rows
\* and nCols columns
table(nRows, nCols, k) ==
    [j \in 1..nRows |-> [i \in 1..nCols |->
        4 * (k.c0 + k.cx * i + k.cy * j + k.cxy * i * j + k.cxx * i * i)]]

Coeffs ==
    {[c0 |-> 1, cx |-> 1, cy |-> 0, cxy |-> 0, cxx |-> 0],
     [c0 |-> 0, cx |-> 2, cy |-> -3, cxy |-> 1, cxx |-> 0],
     [c0 |-> 5, cx |-> -1, cy |-> 2, cxy |-> 0, cxx |-> 1]}

Tables == {table(r, c, k) : r \in 2..3, c \in 2..3, k \in Coeffs}

\* z.shape of a two-dimensional array
shape(z) == <<Len(z), Len(z[1])>>

\* the positions queried on an axis: two below, the samples, two above
Queries(ax) ==
    {ax[1] - 3, ax[1] - 1, ax[Len(ax)] + 1, ax[Len(ax)] + 2} \cup {ax[i] : i \in 1..Len(ax)}

\* Akima1DInterpolator(x, y_vals)(xq): the sample value at a sample
\* position, nan outside the sampled range
akima(x, y_vals, xq) ==
    IF \E i \in 1..Len(x) : x[i] = xq
    THEN y_vals[CHOOSE i \in 1..Len(x) : x[i] = xq]
    ELSE "nan"

\* (variant) the end values are held beyond the bounds
extrapClamped(x, y_vals, xq) ==
    IF xq < x[1] THEN y_vals[1]
    ELSE IF xq > x[Len(x)] THEN y_vals[Len(x)]
    ELSE akima(x, y_vals, xq)

\* _akima_with_extrapolation(x, y_vals)(xq)
extrap(x, y_vals, xq) ==
    LET n       == Len(x)
        result  == akima(x, y_vals, xq)
        left    == xq < x[1]
        result1 == IF left
                   THEN LET slope == (y_vals[2] - y_vals[1]) \div (x[2] - x[1])
                        IN  y_vals[1] + slope * (xq - x[1])
                   ELSE result
        right   == xq > x[n]
    IN  IF right
        THEN LET slope == (y_vals[n] - y_vals[n - 1]) \div (x[n] - x[n - 1])
             IN  y_vals[n] + slope * (xq - x[n])
        ELSE result1

\* Makima2DInterpolator.__call__(xq, yq)
call2D(o, xq, yq) ==
    LET intermediate == [j \in 1..Len(o.z) |-> extrap(o.x, o.z[j], xq)]
    IN  extrap(o.y, intermediate, yq)

\* Makima2DInterpolator(x, y, z)
Construct(x, y, z) ==
    /\ IF shape(z) # <<Len(y), Len(x)>>
       THEN /\ ires' = [op |-> "__init__", x |-> x, y |-> y, z |-> z, err |-> "ValueError"]
            /\ UNCHANGED mk
       ELSE /\ ires' = [op |-> "__init__", x |-> x, y |-> y, z |-> z, err |-> "none"]
            /\ mk' = [x |-> x, y |-> y, z |-> z]
    /\ UNCHANGED <<solverVars, analysisVars>>

\* interpolator(xq, yq) on the interpolator constructed last
Call(xq, yq) ==
    /\ mk # NoInterp
    /\ ires' = [op |-> "__call__", xq |-> xq, yq |-> yq, out |-> call2D(mk, xq, yq)]
    /\ UNCHANGED <<mk, solverVars, analysisVars>>

InitInterp == SolverIdle /\ AnalysisIdle /\ InterpIdle

NextInterp ==
    \/ \E x \in XAxes, y \in YAxes, z \in Tables : Construct(x, y, z)
    \/ /\ mk # NoInterp
       /\ \E xq \in Queries(mk.x), yq \in Queries(mk.y) : Call(xq, yq)

SpecInterp == InitInterp /\ [][NextInterp]_vars

\* the line through (x0, v0) and (x1, v1), at xq
lineThrough(x0, v0, x1, v1, xq) == v0 + ((v1 - v0) * (xq - x0)) \div (x1 - x0)

\* one pass as the extrapolation rule has it: the line of the first segment
\* below the samples, the line of the last segment above them, the sample
\* value on a sample
pass(x, v, xq) ==
    LET n == Len(x)
    IN  IF xq < x[1] THEN lineThrough(x[1], v[1], x[2], v[2], xq)
        ELSE IF xq > x[n] THEN lineThrough(x[n], v[n], x[n - 1], v[n - 1], xq)
        ELSE v[CHOOSE i \in 1..n : x[i] = xq]

\* C11: beyond the samples each pass extrapolates linearly with the secant
\* slope of the first (below) or last (above) segment; a 2-D evaluation
\* applies the pass to every table row along x and then to the resulting
\* column along y; construction fails exactly when the table shape is not
\* (len(y), len(x)).
C11_LinearExtrapolation ==
    /\ ires.op = "__init__"
          => /\ (shape(ires.z) # <<Len(ires.y), Len(ires.x)>>) <=> (ires.err = "ValueError")
             /\ ires.err = "none" => mk = [x |-> ires.x, y |-> ires.y, z |-> ires.z]
    /\ ires.op = "__call__"
          => LET column == [j \in 1..Len(mk.z) |-> pass(mk.x, mk.z[j], ires.xq)]
             IN  ires.out = pass(mk.y, column, ires.yq)

C11_Witness ==
    /\ ires.op = "__call__"
    /\ ires.xq < mk.x[1]
    /\ ires.yq > mk.y[Len(mk.y)]
    /\ Len(mk.y) = 3
    /\ ires.out \in Int
    /\ ires.out # mk.z[3][1]

(***************************************************************************)
(* Further claims about the equilibrium solver.                            *)
(***************************************************************************)
SeqRange(seq) == {seq[i] : i \in 1..Len(seq)}

\* the sign by the identity of the mesh's recorded driving gear
signByIdentity(g, m) == IF g = drivingGear(m) THEN -1 ELSE 1

\* the meshes of the gear of the last call whose force is known: those
\* known on entry and, after a call that resolved a force, the resolved one
knownOnEntry == {m \in SeqRange(meshesOf(last.gear)) : mesh[m].F # Zero3}

\* the forces the last call appended to its gear's EFs in its loop over the
\* meshes, for a call that ended without resolving a force
registeredInLoop ==
    LET efs == EFs[last.gear]
        k   == last.pre.nMeshes - last.pre.nUnknown
    IN  {efs[i] : i \in (Len(efs) - k + 1)..Len(efs)}

\* C12: the sign is -1 exactly when the gear is the mesh's recorded driving
\* gear, whatever the gears' name labels: a solve() that ran its loop over
\* the meshes has registered, for every mesh of known force, that force
\* times -1 on the driving gear and times +1 on any other gear, and of the
\* two distinct gears of a mesh exactly one uses -1.
C12_SignByDrivingGearIdentity ==
    /\ (solved /\ last.outcome \in {"unsolvable", "torque", "unbalanced"})
          => \A m \in knownOnEntry :
                \E ef \in registeredInLoop :
                   /\ ef.loc = meshLoc(m)
                   /\ ef.force = VScale(signByIdentity(last.gear, m), mesh[m].F)
    /\ (solved /\ last.outcome \in {"unsolvable", "torque", "unbalanced", "force"})
          => \A m \in knownOnEntry :
                /\ signOf(cfg, last.gear, m) = signByIdentity(last.gear, m)
                /\ Cardinality({g \in {drivingGear(m), drivenGear(m)} :
                                   signOf(cfg, g, m) = -1}) = 1

\* the force the last call appended last to its gear's EFs, and its mesh
lastRegistered == EFs[last.gear][Len(EFs[last.gear])]

resolvedMesh == CHOOSE m \in Meshes : meshLoc(m) = lastRegistered.loc

\* C13: after a solve() that resolved the unknown force of a mesh (gears
\* with distinct names), the force it appended to the gear's EFs is
\* sign * mesh.F at the mesh location, with sign = -1 on the driving gear
\* and +1 on the driven gear: the vector solve() registers for that mesh
\* once its force is known.
C13_RegisteredForceIsMeshResultant ==
    (solved /\ last.outcome = "force" /\ cfg.names = "distinct")
        => /\ resolvedMesh \in SeqRange(meshesOf(last.gear))
           /\ lastRegistered.force =
                 VScale(signByIdentity(last.gear, resolvedMesh), mesh[resolvedMesh].F)

\* C14: a solve() that takes the force branch changes no torque value, of
\* the gear's ETs or of the owning shaft's ETs, and neither sequence; only
\* mesh force fields, the gear's EFs and the shaft's EFs change.
C14_ForceBranchKeepsTorques ==
    (solved /\ last.outcome = "force")
        => last.changed \subseteq {"EFs", "mesh", "shaftEFs"}

(***************************************************************************)
(* Further claims about the analysis pipelines.                            *)
(***************************************************************************)
\* the factors a call stores before it can reach a categorical error
earlyFactors ==
    {"K_0", "t_R", "m_B", "K_B", "K_v", "C_e", "C_mc", "C_pf", "C_pm", "Z_E", "m_N"}

\* the last call raised for an invalid driven-machine, teeth-condition or
\* use-condition string, driven-gear material or mesh type
failedOnCategory ==
    /\ res.op \in {"calculateSigmaMaxFatigue", "calculateSigmaMaxPitting"}
    /\ res.err.type = "ValueError"
    /\ categoryNamed(res.err.msg) \in
          {"driven machine", "teeth condition", "use", "gear material", "mesh type"}

\* C15: a calculateSigmaMaxFatigue or calculateSigmaMaxPitting call that
\* fails with a categorical-input error leaves K_0, t_R, m_B, K_B, K_v, C_e,
\* C_mc, C_pf, C_pm, Z_E and m_N as they were before the call.
C15_FailedCallLeavesFactors ==
    failedOnCategory => res.changed \cap earlyFactors = {}

====
